---- MODULE Spec2Model ----
(***************************************************************************)
(* The two Keras functional-API notebooks of versions/2020/cnn/code:       *)
(*   cnn-functional.ipynb  3-Conv2D-1-Dense linear stack                   *)
(*   cnn-siamese.ipynb     two-branch Y-Network merged by concatenate()    *)
(* The state is the Python namespace of a notebook run (the tensors bound  *)
(* to inputs, x, y, outputs, the model) together with the layer graph the  *)
(* functional API records while the cells execute, one statement per step. *)
(* A tensor is represented by the index of the node that produced it; its  *)
(* static shape is (batch, height, width, channels) or (batch, features).  *)
(***************************************************************************)
EXTENDS Integers, Sequences, FiniteSets, TLC

\* ------------------------------------------------------------- bounds
\* largest image side of the data set (MNIST: 28)
MaxSize == 28
\* largest number of distinct training labels (MNIST: 10)
MaxLabels == 10
\* largest height / width of a tensor handed to the merge cell on its own
MaxMergeDim == 4
\* largest height / width of an input_shape handed to the building cells
MaxDim == 16
\* largest extra channel count tried besides `filters`
MaxChannels == 2
\* largest magnitude of a pre-activation value of the Dense head, and the
\* number of classes of the head whose activation is evaluated numerically
MaxLogit == 2
HeadClasses == 3
\* largest label value of a data set with arbitrary label sets
MaxLabelValue == 3
\* largest batch size, and largest height / width / channel count, of a
\* tensor whose elements are flattened one by one
MaxBatch == 2
MaxFlatDim == 3
\* largest side of an image convolved pixel by pixel, largest pixel value and
\* largest magnitude of a kernel weight or bias
MaxConvSide == 3
MaxPixel == 1
MaxKernelWeight == 1

\* -------------------------------------------------- program constants
batch_size == 128
kernel_size == 3
filters == 64
epochs == 20
\* range(3) of both branch loops
range_stop == 3
\* dilation_rate of the right branch; Conv2D's default is 1
dilation_rate == 2
default_dilation == 1
\* MaxPooling2D() defaults: pool_size=(2, 2), strides=pool_size
pool_size == 2
\* the unknown batch dimension printed as None by model.summary()
None == -1

VARIABLES
    notebook,     \* "functional" | "siamese": the notebook being run
    x_train,      \* shape of the training images array
    y_train,      \* set of the distinct sparse labels of the training set
    y_train_cat,  \* width of to_categorical(y_train) (0 before the conversion)
    y_test,       \* set of the distinct sparse labels of the test set
    y_test_cat,   \* width of to_categorical(y_test) (0 before the conversion)
    num_labels,   \* len(np.unique(y_train))
    image_size,   \* x_train.shape[1]
    input_shape,  \* (image_size, image_size, 1)
    pc,           \* the statement to execute next
    i,            \* loop variable of the branch loops
    nodes,        \* the layer graph: sequence of layer-call nodes
    env,          \* tensor variables of the namespace -> node index (0: unbound)
    model,        \* the Model object
    weights,      \* version of the trainable parameters
    score,        \* result of model.evaluate: the weights version it measured
    error,        \* exception that stopped the run ("" when none)
    head,         \* pre-activation and output of the Dense head for one
                  \* batch element, in fixed point
    conv,         \* one image, one kernel and the feature maps the standard
                  \* and the dilated convolution compute from them
    flat          \* a batch of feature maps, its flattened form and the
                  \* reshape of that form back to the original shape

vars == <<notebook, x_train, y_train, y_train_cat, y_test, y_test_cat, num_labels,
          image_size, input_shape, pc, i, nodes, env, model, weights, score, error,
          head, conv, flat>>

\* ------------------------------------------------------------ helpers
Max(a, b) == IF a >= b THEN a ELSE b

\* marker for "the layer call raised" in place of an output shape
Invalid == <<>>

NoModel == [built |-> FALSE, name |-> "", inputs |-> <<>>, outputs |-> 0,
            layers |-> {}, compiled |-> FALSE]

NoHead == [logits |-> <<>>, output |-> <<>>]

NoConv == [image |-> <<>>, kernel |-> <<>>, bias |-> 0, standard |-> <<>>,
           dilated |-> <<>>]

NoFlat == [shape |-> <<>>, input |-> <<>>, output |-> <<>>, restored |-> <<>>]

EmptyEnv == [inputs |-> 0, left_inputs |-> 0, right_inputs |-> 0,
             x |-> 0, y |-> 0, outputs |-> 0]

ShapeOf(t) == nodes[t].shape

Range(s) == {s[k] : k \in 1..Len(s)}

SetMax(S) == CHOOSE m \in S : \A n \in S : n <= m

data == <<notebook, x_train, y_train, y_train_cat, y_test, y_test_cat, num_labels,
          image_size, input_shape>>

\* ------------------------------------------------ layer shape contracts
\* keras.utils.conv_utils.conv_output_length, used by Conv2D and MaxPooling2D
conv_output_length(input_length, filter_size, padding, stride, dilation) ==
    LET dilated_filter_size == filter_size + (filter_size - 1) * (dilation - 1)
        output_length == IF padding = "same"
                         THEN input_length
                         ELSE input_length - dilated_filter_size + 1
    IN  (output_length + stride - 1) \div stride

\* a Conv2D built with padding='valid' (the Keras default) instead of 'same'
Conv2D_valid(s, nfilters, ksize, padding, rate) ==
    LET h == conv_output_length(s[2], ksize, "valid", 1, rate)
        w == conv_output_length(s[3], ksize, "valid", 1, rate)
    IN  IF h <= 0 \/ w <= 0 THEN Invalid ELSE <<s[1], h, w, nfilters>>

\* Conv2D(filters, kernel_size, padding, dilation_rate) called on a tensor of
\* shape s = (batch, height, width, channels); strides are the default (1, 1)
Conv2D(s, nfilters, ksize, padding, rate) ==
    LET h == conv_output_length(s[2], ksize, padding, 1, rate)
        w == conv_output_length(s[3], ksize, padding, 1, rate)
    IN  IF h <= 0 \/ w <= 0 THEN Invalid ELSE <<s[1], h, w, nfilters>>

\* a MaxPooling2D built with padding='same': sizes are rounded up
MaxPooling2D_same(s) ==
    <<s[1], conv_output_length(s[2], pool_size, "same", pool_size, 1),
            conv_output_length(s[3], pool_size, "same", pool_size, 1), s[4]>>

\* MaxPooling2D() called on s: pool_size (2, 2), strides (2, 2), padding
\* 'valid'. A window larger than the input is a negative dimension, which
\* the shape inference of the graph rejects when the layer is called.
MaxPooling2D(s) ==
    IF s[2] < pool_size \/ s[3] < pool_size
    THEN Invalid
    ELSE <<s[1], conv_output_length(s[2], pool_size, "valid", pool_size, 1),
                 conv_output_length(s[3], pool_size, "valid", pool_size, 1), s[4]>>

\* a Flatten that folds only the two spatial axes
Flatten_spatial(s) == <<s[1], s[2] * s[3]>>

\* Flatten() called on s
Flatten(s) == <<s[1], s[2] * s[3] * s[4]>>

\* Dense(units, activation='softmax') called on s = (batch, features)
Dense(s, units) == <<s[1], units>>

\* a merge that keeps the first input's channels, as add() or multiply() do
concatenate_add(a, b) ==
    IF Len(a) # Len(b) \/ \E k \in 1..(Len(a) - 1) : a[k] # b[k]
    THEN Invalid
    ELSE a

\* a merge that does not compare its input shapes
concatenate_unchecked(a, b) == [a EXCEPT ![Len(a)] = a[Len(a)] + b[Len(b)]]

\* concatenate([a, b]) along the default axis -1: the inputs must have the
\* same shape except for the concat axis, otherwise the call raises
concatenate(a, b) ==
    IF Len(a) # Len(b) \/ \E k \in 1..(Len(a) - 1) : a[k] # b[k]
    THEN Invalid
    ELSE [a EXCEPT ![Len(a)] = a[Len(a)] + b[Len(b)]]

\* ------------------------------------------------------ the layer graph
\* the node a layer call adds: the tensors it was called on, their shapes as
\* the layer saw them, and the shape of the tensor it returns
Node(layer, rate, inbound, outshape) ==
    [layer |-> layer, rate |-> rate, inbound |-> inbound,
     inshape |-> [k \in 1..Len(inbound) |-> ShapeOf(inbound[k])],
     shape |-> outshape]

\* var = Layer(...)(inbound): bind var to the new tensor, or stop the run
\* with the exception the layer call raises
Call(layer, rate, inbound, outshape, var, nextpc) ==
    IF outshape = Invalid
    THEN /\ error' = "ValueError"
         /\ pc' = "error"
         /\ UNCHANGED <<nodes, env>>
    ELSE /\ nodes' = Append(nodes, Node(layer, rate, inbound, outshape))
         /\ env' = [env EXCEPT ![var] = Len(nodes) + 1]
         /\ pc' = nextpc
         /\ UNCHANGED error

\* every node the tensor n depends on, n included
RECURSIVE Ancestors(_)
Ancestors(n) ==
    {n} \cup UNION {Ancestors(nodes[n].inbound[k]) : k \in 1..Len(nodes[n].inbound)}

\* Model(inputs, outputs): the network is the set of nodes found by walking
\* back from outputs; an InputLayer reached that is not among inputs makes
\* the graph disconnected and the constructor raises
KerasModel(ins, out, name) ==
    LET g == Ancestors(out)
    IN  IF \E n \in g : nodes[n].layer = "InputLayer" /\ n \notin Range(ins)
        THEN NoModel
        ELSE [built |-> TRUE, name |-> name, inputs |-> ins, outputs |-> out,
              layers |-> g \cup Range(ins), compiled |-> FALSE]

BuildModel(ins, out, name, nextpc) ==
    LET m == KerasModel(ins, out, name)
    IN  IF m.built
        THEN /\ model' = m
             /\ weights' = 0
             /\ pc' = nextpc
             /\ UNCHANGED error
        ELSE /\ error' = "ValueError"
             /\ pc' = "error"
             /\ UNCHANGED <<model, weights>>

\* width of the class axis of the model's output tensor
OutputWidth == ShapeOf(model.outputs)[2]

\* model.fit(..., y_train, validation_data=(..., y_test), epochs=20): the loss
\* compares the one-hot labels with the model output, so labels of another
\* width raise: training labels in the first training step, before any
\* update; validation labels at the end of the first epoch, after its updates
Fit(nextpc) ==
    IF y_train_cat # OutputWidth
    THEN /\ error' = "ValueError"
         /\ pc' = "error"
         /\ UNCHANGED weights
    ELSE IF y_test_cat # OutputWidth
    THEN /\ error' = "ValueError"
         /\ pc' = "error"
         /\ weights' = weights + 1
    ELSE /\ weights' = weights + epochs
         /\ pc' = nextpc
         /\ UNCHANGED error

\* score = model.evaluate(..., y_test): a forward pass and the metrics; the
\* parameters are only read
Evaluate(nextpc) ==
    IF y_test_cat # OutputWidth
    THEN /\ error' = "ValueError"
         /\ pc' = "error"
         /\ UNCHANGED <<weights, score>>
    ELSE /\ score' = <<weights>>
         /\ pc' = nextpc
         /\ UNCHANGED <<weights, error>>

\* ------------------------------------------------- cells shared in shape
\* cell 1 of both notebooks: labels and images
Preprocess ==
    /\ pc = "preprocess"
    /\ num_labels' = Cardinality(y_train)
    /\ y_train_cat' = SetMax(y_train) + 1
    /\ y_test_cat' = SetMax(y_test) + 1
    /\ image_size' = x_train[2]
    /\ x_train' = <<None, image_size', image_size', 1>>
    /\ pc' = "parameters"
    /\ UNCHANGED <<notebook, y_train, y_test, input_shape, i, nodes, env, model,
                   weights, score, error, head, conv, flat>>

\* network parameters (cell 2 of cnn-functional, end of cell 1 of cnn-siamese)
NetworkParameters ==
    /\ pc = "parameters"
    /\ input_shape' = <<image_size, image_size, 1>>
    /\ pc' = IF notebook = "functional" THEN "f_input" ELSE "left_input"
    /\ UNCHANGED <<notebook, x_train, y_train, y_train_cat, y_test, y_test_cat,
                   num_labels, image_size, i, nodes, env, model, weights, score, error, head, conv, flat>>

\* ---------------------------------------------------- cnn-functional
\* inputs = Input(shape=input_shape)
FInput ==
    /\ pc = "f_input"
    /\ Call("InputLayer", 0, <<>>, <<None>> \o input_shape, "inputs", "f_conv1")
    /\ UNCHANGED <<data, i, model, weights, score, head, conv, flat>>

\* y = Conv2D(filters, kernel_size, activation='relu', padding='same')(inputs)
FConv1 ==
    /\ pc = "f_conv1"
    /\ Call("Conv2D", default_dilation, <<env.inputs>>,
            Conv2D(ShapeOf(env.inputs), filters, kernel_size, "same", default_dilation),
            "y", "f_pool1")
    /\ UNCHANGED <<data, i, model, weights, score, head, conv, flat>>

\* y = MaxPooling2D()(y)
FPool1 ==
    /\ pc = "f_pool1"
    /\ Call("MaxPooling2D", 0, <<env.y>>, MaxPooling2D(ShapeOf(env.y)), "y", "f_conv2")
    /\ UNCHANGED <<data, i, model, weights, score, head, conv, flat>>

\* y = Conv2D(...)(y)
FConv2 ==
    /\ pc = "f_conv2"
    /\ Call("Conv2D", default_dilation, <<env.y>>,
            Conv2D(ShapeOf(env.y), filters, kernel_size, "same", default_dilation),
            "y", "f_pool2")
    /\ UNCHANGED <<data, i, model, weights, score, head, conv, flat>>

\* y = MaxPooling2D()(y)
FPool2 ==
    /\ pc = "f_pool2"
    /\ Call("MaxPooling2D", 0, <<env.y>>, MaxPooling2D(ShapeOf(env.y)), "y", "f_conv3")
    /\ UNCHANGED <<data, i, model, weights, score, head, conv, flat>>

\* y = Conv2D(...)(y), the last statement of the cell: no pooling follows
FConv3 ==
    /\ pc = "f_conv3"
    /\ Call("Conv2D", default_dilation, <<env.y>>,
            Conv2D(ShapeOf(env.y), filters, kernel_size, "same", default_dilation),
            "y", "f_flatten")
    /\ UNCHANGED <<data, i, model, weights, score, head, conv, flat>>

\* y = Flatten()(y)
FFlatten ==
    /\ pc = "f_flatten"
    /\ Call("Flatten", 0, <<env.y>>, Flatten(ShapeOf(env.y)), "y", "f_dense")
    /\ UNCHANGED <<data, i, model, weights, score, head, conv, flat>>

\* outputs = Dense(num_labels, activation='softmax')(y)
FDense ==
    /\ pc = "f_dense"
    /\ Call("Dense", 0, <<env.y>>, Dense(ShapeOf(env.y), num_labels), "outputs", "f_model")
    /\ UNCHANGED <<data, i, model, weights, score, head, conv, flat>>

\* model = Model(inputs=inputs, outputs=outputs)
FModel ==
    /\ pc = "f_model"
    /\ BuildModel(<<env.inputs>>, env.outputs, "functional", "f_compile")
    /\ UNCHANGED <<data, i, nodes, env, score, head, conv, flat>>

\* model.compile(loss='categorical_crossentropy', optimizer='sgd', ...)
FCompile ==
    /\ pc = "f_compile"
    /\ model.built
    /\ model' = [model EXCEPT !.compiled = TRUE]
    /\ pc' = "f_fit"
    /\ UNCHANGED <<data, i, nodes, env, weights, score, error, head, conv, flat>>

\* model.fit(x_train, y_train, ..., epochs=20, batch_size=batch_size)
FFit ==
    /\ pc = "f_fit"
    /\ model.compiled
    /\ Fit("f_evaluate")
    /\ UNCHANGED <<data, i, nodes, env, model, score, head, conv, flat>>

\* score = model.evaluate(x_test, y_test, batch_size=batch_size)
FEvaluate ==
    /\ pc = "f_evaluate"
    /\ model.compiled
    /\ Evaluate("done")
    /\ UNCHANGED <<data, i, nodes, env, model, head, conv, flat>>

\* ------------------------------------------------------- cnn-siamese
\* left_inputs = Input(shape=input_shape); x = left_inputs; for i in range(3):
LeftInput ==
    /\ pc = "left_input"
    /\ nodes' = Append(nodes, Node("InputLayer", 0, <<>>, <<None>> \o input_shape))
    /\ env' = [env EXCEPT !.left_inputs = Len(nodes) + 1, !.x = Len(nodes) + 1]
    /\ i' = 0
    /\ pc' = "left_conv"
    /\ UNCHANGED <<data, model, weights, score, error, head, conv, flat>>

\* x = Conv2D(filters=filters, kernel_size, padding='same', activation='relu')(x)
LeftConv ==
    /\ pc = "left_conv"
    /\ Call("Conv2D", default_dilation, <<env.x>>,
            Conv2D(ShapeOf(env.x), filters, kernel_size, "same", default_dilation),
            "x", "left_pool")
    /\ UNCHANGED <<data, i, model, weights, score, head, conv, flat>>

\* a loop body whose pooling statement is commented out like the Dropout
LeftPool_skipped ==
    /\ pc = "left_pool"
    /\ pc' = IF i + 1 < range_stop THEN "left_conv" ELSE "right_input"
    /\ i' = IF i + 1 < range_stop THEN i + 1 ELSE i
    /\ UNCHANGED <<data, nodes, env, model, weights, score, error, head, conv, flat>>

\* x = MaxPooling2D()(x), then the next iteration of the loop or its end
LeftPool ==
    /\ pc = "left_pool"
    /\ Call("MaxPooling2D", 0, <<env.x>>, MaxPooling2D(ShapeOf(env.x)), "x",
            IF i + 1 < range_stop THEN "left_conv" ELSE "right_input")
    /\ i' = IF pc' = "left_conv" THEN i + 1 ELSE i
    /\ UNCHANGED <<data, model, weights, score, head, conv, flat>>

\* a right branch that starts from the left input tensor
RightInput_shared ==
    /\ pc = "right_input"
    /\ nodes' = Append(nodes, Node("InputLayer", 0, <<>>, <<None>> \o input_shape))
    /\ env' = [env EXCEPT !.right_inputs = Len(nodes) + 1, !.y = env.left_inputs]
    /\ i' = 0
    /\ pc' = "right_conv"
    /\ UNCHANGED <<data, model, weights, score, error, head, conv, flat>>

\* right_inputs = Input(shape=input_shape); y = right_inputs; for i in range(3):
RightInput ==
    /\ pc = "right_input"
    /\ nodes' = Append(nodes, Node("InputLayer", 0, <<>>, <<None>> \o input_shape))
    /\ env' = [env EXCEPT !.right_inputs = Len(nodes) + 1, !.y = Len(nodes) + 1]
    /\ i' = 0
    /\ pc' = "right_conv"
    /\ UNCHANGED <<data, model, weights, score, error, head, conv, flat>>

\* y = Conv2D(filters, kernel_size, padding='same', activation='relu',
\*            dilation_rate=2)(y)
RightConv ==
    /\ pc = "right_conv"
    /\ Call("Conv2D", dilation_rate, <<env.y>>,
            Conv2D(ShapeOf(env.y), filters, kernel_size, "same", dilation_rate),
            "y", "right_pool")
    /\ UNCHANGED <<data, i, model, weights, score, head, conv, flat>>

\* y = MaxPooling2D()(y), then the next iteration of the loop or its end
RightPool ==
    /\ pc = "right_pool"
    /\ Call("MaxPooling2D", 0, <<env.y>>, MaxPooling2D(ShapeOf(env.y)), "y",
            IF i + 1 < range_stop THEN "right_conv" ELSE "concatenate")
    /\ i' = IF pc' = "right_conv" THEN i + 1 ELSE i
    /\ UNCHANGED <<data, model, weights, score, head, conv, flat>>

\* y = concatenate([x, y])
Concatenate ==
    /\ pc = "concatenate"
    /\ Call("Concatenate", 0, <<env.x, env.y>>,
            concatenate(ShapeOf(env.x), ShapeOf(env.y)), "y", "y_flatten")
    /\ UNCHANGED <<data, i, model, weights, score, head, conv, flat>>

\* y = Flatten()(y)
YFlatten ==
    /\ pc = "y_flatten"
    /\ Call("Flatten", 0, <<env.y>>, Flatten(ShapeOf(env.y)), "y", "y_dense")
    /\ UNCHANGED <<data, i, model, weights, score, head, conv, flat>>

\* outputs = Dense(num_labels, activation='softmax')(y)
YDense ==
    /\ pc = "y_dense"
    /\ Call("Dense", 0, <<env.y>>, Dense(ShapeOf(env.y), num_labels), "outputs", "y_model")
    /\ UNCHANGED <<data, i, model, weights, score, head, conv, flat>>

\* model = Model([left_inputs, right_inputs], outputs, name='Y_Network')
YModel ==
    /\ pc = "y_model"
    /\ BuildModel(<<env.left_inputs, env.right_inputs>>, env.outputs, "Y_Network",
                  "y_compile")
    /\ UNCHANGED <<data, i, nodes, env, score, head, conv, flat>>

\* model.compile(loss='categorical_crossentropy', optimizer='sgd', ...)
YCompile ==
    /\ pc = "y_compile"
    /\ model.built
    /\ model' = [model EXCEPT !.compiled = TRUE]
    /\ pc' = "y_fit"
    /\ UNCHANGED <<data, i, nodes, env, weights, score, error, head, conv, flat>>

\* model.fit([x_train, x_train], y_train, ..., epochs=20, batch_size=batch_size)
YFit ==
    /\ pc = "y_fit"
    /\ model.compiled
    /\ Fit("y_evaluate")
    /\ UNCHANGED <<data, i, nodes, env, model, score, head, conv, flat>>

\* an evaluation that runs the training step, so that the optimizer updates
\* the parameters while the test set is scored
YEvaluate_training ==
    /\ pc = "y_evaluate"
    /\ model.compiled
    /\ weights' = weights + 1
    /\ score' = <<weights'>>
    /\ pc' = "done"
    /\ UNCHANGED <<data, i, nodes, env, model, error, head, conv, flat>>

\* score = model.evaluate([x_test, x_test], y_test, batch_size=batch_size)
YEvaluate ==
    /\ pc = "y_evaluate"
    /\ model.compiled
    /\ Evaluate("done")
    /\ UNCHANGED <<data, i, nodes, env, model, head, conv, flat>>

\* ---------------------------------------------------- specifications
Sizes == 1..MaxSize

\* the label sets {0, ..., n-1}
LabelSets == {0..(n - 1) : n \in 1..MaxLabels}

\* a fresh kernel about to run one of the notebooks on a data set of square
\* images
Init ==
    /\ notebook \in {"functional", "siamese"}
    /\ \E s \in Sizes : x_train = <<None, s, s>>
    /\ y_train \in LabelSets
    /\ y_train_cat = 0
    /\ y_test = y_train
    /\ y_test_cat = 0
    /\ num_labels = 0
    /\ image_size = 0
    /\ input_shape = <<>>
    /\ pc = "preprocess"
    /\ i = 0
    /\ nodes = <<>>
    /\ env = EmptyEnv
    /\ model = NoModel
    /\ weights = 0
    /\ score = <<>>
    /\ error = ""
    /\ head = NoHead
    /\ conv = NoConv
    /\ flat = NoFlat

BuildFunctional ==
    \/ FInput \/ FConv1 \/ FPool1 \/ FConv2 \/ FPool2 \/ FConv3
    \/ FFlatten \/ FDense \/ FModel

BuildBranches ==
    \/ LeftInput \/ LeftConv \/ LeftPool \/ RightInput \/ RightConv \/ RightPool

Merge ==
    \/ Concatenate \/ YFlatten \/ YDense \/ YModel

Train ==
    \/ FCompile \/ FFit \/ FEvaluate \/ YCompile \/ YFit \/ YEvaluate

Next ==
    \/ Preprocess \/ NetworkParameters
    \/ BuildFunctional \/ BuildBranches \/ Merge \/ Train

Spec == Init /\ [][Next]_vars

\* ------------------------------------------- building cells on any shape
Dims == 1..MaxDim

\* the state in which the model-building cells start, for an input_shape
\* (height, width, channels) of any size
InitShapes ==
    /\ notebook \in {"functional", "siamese"}
    /\ input_shape \in {<<h, w, c>> : h \in Dims, w \in Dims, c \in 1..MaxChannels}
    /\ x_train = <<None>> \o input_shape
    /\ image_size = input_shape[1]
    /\ y_train \in LabelSets
    /\ y_train_cat = SetMax(y_train) + 1
    /\ y_test = y_train
    /\ y_test_cat = SetMax(y_test) + 1
    /\ num_labels = Cardinality(y_train)
    /\ pc = IF notebook = "functional" THEN "f_input" ELSE "left_input"
    /\ i = 0
    /\ nodes = <<>>
    /\ env = EmptyEnv
    /\ model = NoModel
    /\ weights = 0
    /\ score = <<>>
    /\ error = ""
    /\ head = NoHead
    /\ conv = NoConv
    /\ flat = NoFlat

NextShapes == BuildFunctional \/ BuildBranches \/ Merge \/ Train

SpecShapes == InitShapes /\ [][NextShapes]_vars

\* ------------------------------------------ the merge cell on any tensors
MergeShapes ==
    {<<None, h, w, c>> : h \in 1..MaxMergeDim, w \in 1..MaxMergeDim,
                         c \in {filters, 2 * filters}}

\* the state in which cell 7 of cnn-siamese starts, x and y being any two
\* image tensors
InitMerge ==
    /\ notebook = "siamese"
    /\ x_train = <<>>
    /\ image_size = 0
    /\ input_shape = <<>>
    /\ y_train = 0..(MaxLabels - 1)
    /\ y_train_cat = SetMax(y_train) + 1
    /\ y_test = y_train
    /\ y_test_cat = SetMax(y_test) + 1
    /\ num_labels = Cardinality(y_train)
    /\ pc = "concatenate"
    /\ i = range_stop - 1
    /\ \E a \in MergeShapes, b \in MergeShapes :
          nodes = << [layer |-> "InputLayer", rate |-> 0, inbound |-> <<>>,
                      inshape |-> <<>>, shape |-> a],
                     [layer |-> "InputLayer", rate |-> 0, inbound |-> <<>>,
                      inshape |-> <<>>, shape |-> b] >>
    /\ env = [EmptyEnv EXCEPT !.left_inputs = 1, !.x = 1, !.right_inputs = 2, !.y = 2]
    /\ model = NoModel
    /\ weights = 0
    /\ score = <<>>
    /\ error = ""
    /\ head = NoHead
    /\ conv = NoConv
    /\ flat = NoFlat

NextMerge == Merge \/ YCompile \/ YFit \/ YEvaluate

SpecMerge == InitMerge /\ [][NextMerge]_vars

\* ===================================================== properties
NodeIds == 1..Len(nodes)

Shapes == [n \in NodeIds |-> nodes[n].shape]

OfLayer(layer) == {n \in NodeIds : nodes[n].layer = layer}

\* the nodes that take the tensor n as an input
Consumers(n) == {m \in NodeIds : n \in Range(nodes[m].inbound)}

\* the nodes computed from the tensor n
Descendants(n) == {m \in NodeIds : m # n /\ n \in Ancestors(m)}

IsPrefix(s, t) == Len(s) <= Len(t) /\ \A k \in 1..Len(s) : s[k] = t[k]

CeilDiv(a, b) == (a + b - 1) \div b

\* the linear stack has executed its last Conv2D statement
StackBuilt ==
    /\ notebook = "functional"
    /\ pc \in {"f_flatten", "f_dense", "f_model", "f_compile", "f_fit",
               "f_evaluate", "done"}

\* both branch loops of the Y-Network have run to their end
BranchesBuilt ==
    /\ notebook = "siamese"
    /\ pc \in {"concatenate", "y_flatten", "y_dense", "y_model", "y_compile",
               "y_fit", "y_evaluate", "done"}

\* ------------------------------------------------------------------ C1
LinearStackShapes28 ==
    << <<None, 28, 28, 1>>, <<None, 28, 28, 64>>, <<None, 14, 14, 64>>,
       <<None, 14, 14, 64>>, <<None, 7, 7, 64>>, <<None, 7, 7, 64>>,
       <<None, 3136>>, <<None, 10>> >>

LinearStackLayers ==
    <<"InputLayer", "Conv2D", "MaxPooling2D", "Conv2D", "MaxPooling2D", "Conv2D",
      "Flatten", "Dense">>

\* C1: cnn-functional run on 28x28x1 images with 10 labels produces, in
\* order, tensors of shape 28x28x1, 28x28x64 (conv 1), 14x14x64 (pool 1),
\* 14x14x64 (conv 2), 7x7x64 (pool 2), 7x7x64 (conv 3, no pooling after it),
\* 3136 (flatten) and 10 (dense): the graph is a prefix of that list at every
\* step, never stops on an error, and is the whole list once the model exists.
C1_LinearStack28 ==
    (notebook = "functional" /\ input_shape = <<28, 28, 1>> /\ num_labels = 10)
    => /\ IsPrefix(Shapes, LinearStackShapes28)
       /\ IsPrefix([n \in NodeIds |-> nodes[n].layer], LinearStackLayers)
       /\ error = ""
       /\ model.built => Shapes = LinearStackShapes28

C1_Witness ==
    /\ notebook = "functional" /\ input_shape = <<28, 28, 1>> /\ num_labels = 10
    /\ model.built /\ pc = "done"
    /\ Shapes = LinearStackShapes28

\* ------------------------------------------------------------------ C2
BranchShapes28 ==
    << <<None, 28, 28, 1>>, <<None, 28, 28, 64>>, <<None, 14, 14, 64>>,
       <<None, 14, 14, 64>>, <<None, 7, 7, 64>>, <<None, 7, 7, 64>>,
       <<None, 3, 3, 64>> >>

YNetworkShapes28 ==
    BranchShapes28 \o BranchShapes28
        \o << <<None, 3, 3, 128>>, <<None, 1152>>, <<None, 10>> >>

DivisibleBy8 == input_shape[1] % 8 = 0 /\ input_shape[2] % 8 = 0

\* C3 as stated: for H and W divisible by 8 the linear stack's convolutional
\* part yields ceil(H/8) x ceil(W/8) x 64 and Flatten a vector of length
\* ceil(H/8) * ceil(W/8) * 64.
C3_Original ==
    (StackBuilt /\ DivisibleBy8)
    => LET h == CeilDiv(input_shape[1], 8)
           w == CeilDiv(input_shape[2], 8)
       IN  /\ nodes[6].shape = <<None, h, w, 64>>
           /\ \A n \in OfLayer("Flatten") : nodes[n].shape = <<None, h * w * 64>>

\* C3 amended: for H and W divisible by 8 the linear stack, which pools
\* twice, yields H/4 x W/4 x 64 after its third convolution, and Flatten turns
\* that tensor into a vector of length (H/4) * (W/4) * 64.
C3_LinearStackQuarter ==
    (StackBuilt /\ DivisibleBy8)
    => LET h == input_shape[1] \div 4
           w == input_shape[2] \div 4
       IN  /\ nodes[6].layer = "Conv2D"
           /\ nodes[6].shape = <<None, h, w, 64>>
           /\ \A n \in OfLayer("Flatten") :
                 /\ nodes[n].inbound = <<6>>
                 /\ nodes[n].shape = <<None, h * w * 64>>
           /\ pc # "f_flatten" => OfLayer("Flatten") # {}

C3_Witness ==
    /\ StackBuilt /\ DivisibleBy8
    /\ input_shape[1] # input_shape[2]
    /\ \E n \in OfLayer("Flatten") : nodes[n].shape = <<None, 4 * 2 * 64>>

\* ------------------------------------------------------------------ C4
PoolFollows(n) ==
    /\ Consumers(n) = {n + 1}
    /\ nodes[n + 1].layer = "MaxPooling2D"

BranchPools(input) == Descendants(input) \cap OfLayer("MaxPooling2D")

BranchConvs(input) == Descendants(input) \cap OfLayer("Conv2D")

\* C4 as stated: in both topologies every Conv2D node is immediately
\* followed by a MaxPooling2D node, three pooling nodes per branch.
C4_Original ==
    /\ StackBuilt => /\ \A n \in OfLayer("Conv2D") : PoolFollows(n)
                     /\ Cardinality(OfLayer("MaxPooling2D")) = 3
    /\ BranchesBuilt => /\ \A n \in OfLayer("Conv2D") : PoolFollows(n)
                        /\ Cardinality(BranchPools(env.left_inputs)) = 3
                        /\ Cardinality(BranchPools(env.right_inputs)) = 3

\* C4 amended: in each branch of the Y-Network every Conv2D node is
\* immediately followed by a MaxPooling2D node, three per branch; in the
\* linear stack only the first two of the three Conv2D nodes are followed by
\* a MaxPooling2D node (two pooling nodes) and the third feeds Flatten.
C4_PoolingPlacement ==
    /\ StackBuilt =>
          /\ OfLayer("Conv2D") = {2, 4, 6}
          /\ PoolFollows(2) /\ PoolFollows(4)
          /\ OfLayer("MaxPooling2D") = {3, 5}
          /\ \A m \in Consumers(6) : nodes[m].layer = "Flatten"
          /\ pc # "f_flatten" => Consumers(6) = {7}
    /\ BranchesBuilt =>
          /\ Cardinality(BranchConvs(env.left_inputs) \ BranchConvs(env.right_inputs)) = 3
          /\ Cardinality(BranchConvs(env.right_inputs) \ BranchConvs(env.left_inputs)) = 3
          /\ \A n \in OfLayer("Conv2D") : PoolFollows(n)
          /\ Cardinality(BranchPools(env.left_inputs) \ BranchPools(env.right_inputs)) = 3
          /\ Cardinality(BranchPools(env.right_inputs) \ BranchPools(env.left_inputs)) = 3

C4_Witness ==
    /\ BranchesBuilt /\ model.built
    /\ Cardinality(OfLayer("MaxPooling2D")) = 6

C4_WitnessStack ==
    /\ StackBuilt /\ model.built
    /\ Cardinality(OfLayer("MaxPooling2D")) = 2

\* ------------------------------------------------------------------ C5
\* C5 as stated: every downsampling stage maps (B, H, W, C) to
\* (B, ceil(H/2), ceil(W/2), C), odd H or W included.
C5_Original ==
    \A n \in OfLayer("MaxPooling2D") :
        LET s == nodes[n].inshape[1]
        IN  nodes[n].shape = <<s[1], CeilDiv(s[2], 2), CeilDiv(s[3], 2), s[4]>>

\* C5 amended: every downsampling stage maps (B, H, W, C) with H, W >= 2 to
\* (B, floor(H/2), floor(W/2), C), odd H or W included (7x7 becomes 3x3),
\* leaving batch and channel dimensions unchanged.
C5_PoolingFloor ==
    \A n \in OfLayer("MaxPooling2D") :
        LET s == nodes[n].inshape[1]
        IN  /\ Len(nodes[n].inbound) = 1
            /\ (s[2] >= 2 /\ s[3] >= 2)
                  => nodes[n].shape = <<s[1], s[2] \div 2, s[3] \div 2, s[4]>>

\* the third pooling stage of a Y branch on an odd, non-square input
C5_Witness ==
    /\ notebook = "siamese"
    /\ \E n \in OfLayer("MaxPooling2D") :
          /\ nodes[n].inshape[1] = <<None, 7, 5, 64>>
          /\ nodes[n].shape = <<None, 3, 2, 64>>

Mismatched == \E k \in 1..3 : nodes[1].shape[k] # nodes[2].shape[k]

\* C8: the merge cell either builds the whole graph and the model, or stops
\* at once: on two tensors whose non-channel dimensions differ the
\* concatenate statement raises, nothing is added to the graph, no Model is
\* created, and neither compile, fit nor evaluate runs; on matching tensors
\* no statement raises and a finished run holds the whole graph.
C8_MismatchRejected ==
    /\ Mismatched =>
          /\ pc \in {"concatenate", "error"}
          /\ Len(nodes) = 2
          /\ env.outputs = 0
          /\ ~model.built /\ ~model.compiled
          /\ weights = 0 /\ score = <<>>
    /\ pc = "error" =>
          /\ Mismatched
          /\ error = "ValueError"
    /\ ~Mismatched => error = ""
    /\ model.built =>
          /\ ~Mismatched
          /\ [n \in NodeIds |-> nodes[n].layer]
                = <<"InputLayer", "InputLayer", "Concatenate", "Flatten", "Dense">>
          /\ model.layers = NodeIds
    /\ score # <<>> => model.built

\* 3x3x64 against 4x4x64 has been rejected
C8_Witness ==
    /\ nodes[1].shape = <<None, 3, 3, 64>>
    /\ nodes[2].shape = <<None, 4, 4, 64>>
    /\ pc = "error" /\ error = "ValueError"
    /\ Len(nodes) = 2 /\ ~model.built

\* ------------------------------------------------------------------ C9
Sources == {n \in model.layers : nodes[n].inbound = <<>>}

Sinks == {n \in model.layers : Consumers(n) \cap model.layers = {}}

\* C9: at every step of construction each node's inputs were created before
\* it (the graph is acyclic), each input shape it saw is the output shape of
\* its producer, and the two tensors feeding the concatenation node agree on
\* every non-channel dimension; a constructed model has exactly one source
\* (linear stack) or two (Y-Network), the declared inputs, and exactly one
\* sink, the declared output.
C9_GraphWellFormed ==
    /\ \A n \in NodeIds :
          /\ \A k \in 1..Len(nodes[n].inbound) :
                /\ nodes[n].inbound[k] \in 1..(n - 1)
                /\ nodes[n].inshape[k] = nodes[nodes[n].inbound[k]].shape
          /\ nodes[n].inbound = <<>> <=> nodes[n].layer = "InputLayer"
    /\ \A n \in OfLayer("Concatenate") :
          /\ Len(nodes[n].inbound) = 2
          /\ \A k \in 1..3 : nodes[n].inshape[1][k] = nodes[n].inshape[2][k]
    /\ model.built =>
          /\ Cardinality(Sources) = IF notebook = "functional" THEN 1 ELSE 2
          /\ Sources = Range(model.inputs)
          /\ Sinks = {model.outputs}
          /\ model.layers = NodeIds

C9_Witness ==
    /\ notebook = "siamese" /\ model.built /\ pc = "done"
    /\ Cardinality(Sources) = 2 /\ Cardinality(Sinks) = 1
    /\ Cardinality(OfLayer("Concatenate")) = 1

\* ---------------------------------------------- the Dense head, numerically
\* one unit of the fixed-point representation of the head's values
Scale == 10 ^ 4

RECURSIVE SeqSum(_)
SeqSum(s) == IF s = <<>> THEN 0 ELSE Head(s) + SeqSum(Tail(s))

RECURSIVE SeqMax(_)
SeqMax(s) == IF Len(s) = 1 THEN s[1] ELSE Max(Head(s), SeqMax(Tail(s)))

\* exp(-k) for k >= 0 in fixed point, rounded down (it underflows to 0)
RECURSIVE ExpNeg(_)
ExpNeg(k) == IF k = 0 THEN Scale ELSE (ExpNeg(k - 1) * 3679) \div Scale

\* activation='exponential': the exponentials without the normalisation
softmax_exponential(z) == [k \in 1..Len(z) |-> ExpNeg(SeqMax(z) - z[k])]

\* activation='softmax' along the class axis of one batch element:
\* exp(z - max(z)) / sum(exp(z - max(z)))
softmax(z) ==
    LET e == [k \in 1..Len(z) |-> ExpNeg(SeqMax(z) - z[k])]
    IN  [k \in 1..Len(z) |-> (e[k] * Scale) \div SeqSum(e)]

\* the forward pass through Dense(num_labels, activation='softmax') of one
\* batch element whose pre-activation values are head.logits
DenseForward ==
    /\ pc = "dense_forward"
    /\ head' = [head EXCEPT !.output = softmax(head.logits)]
    /\ pc' = "dense_done"
    /\ UNCHANGED <<data, i, nodes, env, model, weights, score, error, conv, flat>>

Logits == [1..HeadClasses -> (0 - MaxLogit)..MaxLogit]

\* a Dense head of HeadClasses units about to compute its output on one
\* batch element, for any pre-activation values the kernel and bias produce
InitHead ==
    /\ notebook \in {"functional", "siamese"}
    /\ x_train = <<>>
    /\ image_size = 0
    /\ input_shape = <<>>
    /\ y_train = 0..(HeadClasses - 1)
    /\ y_train_cat = SetMax(y_train) + 1
    /\ y_test = y_train
    /\ y_test_cat = SetMax(y_test) + 1
    /\ num_labels = Cardinality(y_train)
    /\ pc = "dense_forward"
    /\ i = 0
    /\ nodes = <<>>
    /\ env = EmptyEnv
    /\ model = NoModel
    /\ weights = 0
    /\ score = <<>>
    /\ error = ""
    /\ \E z \in Logits : head = [logits |-> z, output |-> <<>>]
    /\ conv = NoConv
    /\ flat = NoFlat

NextHead == DenseForward

SpecHead == InitHead /\ [][NextHead]_vars

\* ----------------------------------------------------------------- C10
\* C10: for every batch element the output of the Dense head has one entry
\* per class, none of them negative, and the entries sum to 1 within the
\* rounding of the representation (one unit per class).
C10_SoftmaxDistribution ==
    pc = "dense_done"
    => /\ Len(head.output) = num_labels
       /\ \A k \in 1..Len(head.output) : head.output[k] >= 0
       /\ SeqSum(head.output) <= Scale
       /\ SeqSum(head.output) >= Scale - num_labels

C10_Witness ==
    /\ pc = "dense_done"
    /\ head.logits[1] = MaxLogit /\ head.logits[2] = 0 - MaxLogit
    /\ head.output[1] > head.output[2] /\ head.output[2] > 0
    /\ SeqSum(head.output) < Scale

\* ----------------------------------------------------------------- C11
\* the Conv2D nodes of the left branch, in the order they were created
LeftConvNodes ==
    LET own == BranchConvs(env.left_inputs) \ BranchConvs(env.right_inputs)
    IN  [k \in 1..Cardinality(own) |->
            CHOOSE n \in own : Cardinality({m \in own : m <= n}) = k]

\* C11: the left branch of the Y-Network consists of 3 convolution layers
\* whose number of feature maps doubles after each layer: 32 in the first,
\* 64 in the second, 128 in the third.
C11_DoublingFilters ==
    BranchesBuilt
    => /\ Len(LeftConvNodes) = 3
       /\ [k \in 1..3 |-> nodes[LeftConvNodes[k]].shape[4]] = <<32, 64, 128>>

\* ----------------------------------------------------------------- C12
ModelStatements == {"f_model", "y_model"}

CompileStatements == {"f_compile", "y_compile"}

FitStatements == {"f_fit", "y_fit"}

EvaluateStatements == {"f_evaluate", "y_evaluate"}

\* C12: the model is constructed once, by the Model statement, and only
\* compile touches it afterwards; the parameters change only in a fit
\* statement of a compiled model; an evaluate statement leaves the model and
\* every parameter unchanged and scores the parameters training ended with;
\* compile runs on a constructed model, fit on a compiled one, and evaluate
\* only after all epochs of fit.
C12_Lifecycle ==
    [][ /\ model' # model =>
              \/ pc \in ModelStatements /\ ~model.built /\ model'.built
                    /\ ~model'.compiled /\ weights' = 0
              \/ pc \in CompileStatements /\ model.built
                    /\ model' = [model EXCEPT !.compiled = TRUE]
        /\ weights' # weights =>
              /\ pc \in FitStatements
              /\ model.compiled /\ model' = model
        /\ pc \in EvaluateStatements =>
              /\ weights' = weights /\ model' = model
              /\ weights = epochs
              /\ score' = <<weights>>
        /\ pc' \in CompileStatements => pc \in ModelStatements /\ model'.built
        /\ pc' \in FitStatements => pc \in CompileStatements /\ model'.compiled
        /\ pc' \in EvaluateStatements =>
              pc \in FitStatements /\ weights' = weights + epochs
        /\ pc' = "done" => pc \in EvaluateStatements
      ]_vars

C12_Witness ==
    /\ pc = "done"
    /\ model.built /\ model.compiled
    /\ weights = epochs /\ score = <<epochs>>

\* --------------------------------------------- notebooks on any label sets
\* the non-empty sets of labels 0..MaxLabelValue
AnyLabelSets == (SUBSET (0..MaxLabelValue)) \ {{}}

\* a fresh kernel about to run one of the notebooks on a data set whose
\* training and test labels are any non-empty sets of non-negative integers
InitLabels ==
    /\ notebook \in {"functional", "siamese"}
    /\ x_train = <<None, MaxSize, MaxSize>>
    /\ y_train \in AnyLabelSets
    /\ y_train_cat = 0
    /\ y_test \in AnyLabelSets
    /\ y_test_cat = 0
    /\ num_labels = 0
    /\ image_size = 0
    /\ input_shape = <<>>
    /\ pc = "preprocess"
    /\ i = 0
    /\ nodes = <<>>
    /\ env = EmptyEnv
    /\ model = NoModel
    /\ weights = 0
    /\ score = <<>>
    /\ error = ""
    /\ head = NoHead
    /\ conv = NoConv
    /\ flat = NoFlat

SpecLabels == InitLabels /\ [][Next]_vars

\* ----------------------------------------------------------------- C15
\* C15: for every non-empty set of non-negative training and test labels,
\* num_labels, the width of the Dense output, equals the width of
\* to_categorical(y_train) and of to_categorical(y_test), so fit and evaluate
\* always compare tensors of the same class-axis length.
C15_LabelWidthsAgree ==
    /\ pc # "preprocess" => /\ num_labels = y_train_cat
                            /\ num_labels = y_test_cat
    /\ \A n \in OfLayer("Dense") : /\ nodes[n].shape[2] = y_train_cat
                                   /\ nodes[n].shape[2] = y_test_cat
    /\ error = ""

\* ------------------------------------------------- Flatten, element by element
\* the concatenation of a sequence of sequences
RECURSIVE Concat(_)
Concat(ss) == IF ss = <<>> THEN <<>> ELSE Head(ss) \o Concat(Tail(ss))

\* a flatten that walks the width axis before the height axis
FlattenValues_transposed(t) ==
    [b \in 1..Len(t) |->
        Concat([c \in 1..Len(t[b][1]) |->
                   Concat([r \in 1..Len(t[b]) |-> t[b][r][c]])])]

\* the values of Flatten()(t) for a channels-last batch t[b][r][c][ch]: per
\* batch element the rows one after the other, in each row the pixels one
\* after the other, in each pixel its channels
FlattenValues(t) ==
    [b \in 1..Len(t) |->
        Concat([r \in 1..Len(t[b]) |-> Concat(t[b][r])])]

\* np.reshape(v, shape) of a batch of vectors v[b][p] to shape (B, H, W, C),
\* in C (row-major) order
Reshape(v, shape) ==
    [b \in 1..shape[1] |->
        [r \in 1..shape[2] |->
            [c \in 1..shape[3] |->
                [ch \in 1..shape[4] |->
                    v[b][((r - 1) * shape[3] + (c - 1)) * shape[4] + ch]]]]]

\* the tensor of a shape whose every element is its own index
Tagged(shape) ==
    [b \in 1..shape[1] |->
        [r \in 1..shape[2] |->
            [c \in 1..shape[3] |->
                [ch \in 1..shape[4] |-> <<b, r, c, ch>>]]]]

FlatShapes ==
    {<<b, h, w, c>> : b \in 1..MaxBatch, h \in 1..MaxFlatDim,
                      w \in 1..MaxFlatDim, c \in 1..MaxFlatDim}

\* y = Flatten()(y) evaluated on the batch flat.input
FlattenForward ==
    /\ pc = "flatten_forward"
    /\ flat' = [flat EXCEPT !.output = FlattenValues(flat.input)]
    /\ pc' = "flatten_done"
    /\ UNCHANGED <<data, i, nodes, env, model, weights, score, error, head, conv>>

\* the flattened batch reshaped to the shape it came from
ReshapeBack ==
    /\ pc = "flatten_done"
    /\ flat' = [flat EXCEPT !.restored = Reshape(flat.output, flat.shape)]
    /\ pc' = "reshape_done"
    /\ UNCHANGED <<data, i, nodes, env, model, weights, score, error, head, conv>>

\* a Flatten layer about to process a batch of feature maps of any shape
InitFlatten ==
    /\ notebook \in {"functional", "siamese"}
    /\ x_train = <<>>
    /\ image_size = 0
    /\ input_shape = <<>>
    /\ y_train = 0..(MaxLabels - 1)
    /\ y_train_cat = SetMax(y_train) + 1
    /\ y_test = y_train
    /\ y_test_cat = SetMax(y_test) + 1
    /\ num_labels = Cardinality(y_train)
    /\ pc = "flatten_forward"
    /\ i = 0
    /\ nodes = <<>>
    /\ env = EmptyEnv
    /\ model = NoModel
    /\ weights = 0
    /\ score = <<>>
    /\ error = ""
    /\ head = NoHead
    /\ conv = NoConv
    /\ \E shape \in FlatShapes :
          flat = [shape |-> shape, input |-> Tagged(shape), output |-> <<>>,
                  restored |-> <<>>]

NextFlatten == FlattenForward \/ ReshapeBack

SpecFlatten == InitFlatten /\ [][NextFlatten]_vars

\* ----------------------------------------------------------------- C14
\* C14: Flatten maps (B, H, W, C) to (B, H*W*C) as a pure reshape: every
\* batch element keeps its H*W*C elements, the element at (r, c, ch) sits at
\* the row-major position ((r-1)*W + (c-1))*C + ch, so each input element
\* appears exactly once, and reshaping the output to (B, H, W, C) gives back
\* the input.
C14_FlattenIsReshape ==
    LET B == flat.shape[1]
        H == flat.shape[2]
        W == flat.shape[3]
        C == flat.shape[4]
    IN  /\ pc \in {"flatten_done", "reshape_done"} =>
              /\ Len(flat.output) = B
              /\ \A b \in 1..B :
                    /\ Len(flat.output[b]) = H * W * C
                    /\ \A r \in 1..H, c \in 1..W, ch \in 1..C :
                          flat.output[b][((r - 1) * W + (c - 1)) * C + ch]
                             = flat.input[b][r][c][ch]
                    /\ \A r \in 1..H, c \in 1..W, ch \in 1..C :
                          Cardinality({p \in 1..Len(flat.output[b]) :
                              flat.output[b][p] = flat.input[b][r][c][ch]}) = 1
        /\ pc = "reshape_done" => flat.restored = flat.input

C14_Witness ==
    /\ pc = "reshape_done"
    /\ flat.shape = <<2, 2, 3, 2>>
    /\ flat.output[2][5] = <<2, 1, 3, 1>>
    /\ flat.restored = flat.input

\* ------------------------------------------ Conv2D, pixel by pixel
\* activation='relu'
relu(v) == Max(v, 0)

\* the pixel of a zero-padded image
Pixel(X, r, c) ==
    IF r \in 1..Len(X) /\ c \in 1..Len(X[1]) THEN X[r][c] ELSE 0

\* a convolution that pads for the undilated kernel whatever the rate
conv2d_undilated_padding(X, K, bias, ksize, rate) ==
    LET pad == (ksize - 1) \div 2
        tap(r, c, t) ==
            LET a == (t - 1) \div ksize
                b == (t - 1) % ksize
            IN  K[a + 1][b + 1] * Pixel(X, r + a * rate - pad, c + b * rate - pad)
    IN  [r \in 1..conv_output_length(Len(X), ksize, "same", 1, rate) |->
            [c \in 1..conv_output_length(Len(X[1]), ksize, "same", 1, rate) |->
                relu(bias + SeqSum([t \in 1..(ksize * ksize) |-> tap(r, c, t)]))]]

\* the feature map Conv2D(1, ksize, padding='same', activation='relu',
\* dilation_rate=rate) computes from the one-channel image X with kernel K
\* and bias: 'same' padding puts rate * (ksize - 1) zeros around the image,
\* half on each side, and tap (a, b) reads the pixel a * rate, b * rate
\* away from the window's corner
conv2d(X, K, bias, ksize, rate) ==
    LET pad == (rate * (ksize - 1)) \div 2
        tap(r, c, t) ==
            LET a == (t - 1) \div ksize
                b == (t - 1) % ksize
            IN  K[a + 1][b + 1] * Pixel(X, r + a * rate - pad, c + b * rate - pad)
    IN  [r \in 1..conv_output_length(Len(X), ksize, "same", 1, rate) |->
            [c \in 1..conv_output_length(Len(X[1]), ksize, "same", 1, rate) |->
                relu(bias + SeqSum([t \in 1..(ksize * ksize) |-> tap(r, c, t)]))]]

\* square images that are constant or have a single non-zero pixel
Images ==
    UNION {   {[r \in 1..s |-> [c \in 1..s |-> v]] : v \in 0..MaxPixel}
         \cup {[r \in 1..s |-> [c \in 1..s |->
                   IF r = r0 /\ c = c0 THEN v ELSE 0]] :
                   r0 \in 1..s, c0 \in 1..s, v \in 1..MaxPixel}
          : s \in 1..MaxConvSide}

KernelWeights == (0 - MaxKernelWeight)..MaxKernelWeight

centre == (kernel_size + 1) \div 2

\* kernels with a centre weight and at most one other non-zero weight
Kernels ==
    {[a \in 1..kernel_size |-> [b \in 1..kernel_size |->
         IF a = centre /\ b = centre THEN w0
         ELSE IF a = a1 /\ b = b1 THEN w1 ELSE 0]] :
         w0 \in KernelWeights, w1 \in KernelWeights,
         a1 \in 1..kernel_size, b1 \in 1..kernel_size}

\* the first convolution of the left branch (dilation 1) and of the right
\* branch (dilation 2) evaluated on the same image with the same weights
ConvForward ==
    /\ pc = "conv_forward"
    /\ conv' = [conv EXCEPT
          !.standard = conv2d(conv.image, conv.kernel, conv.bias, kernel_size,
                              default_dilation),
          !.dilated = conv2d(conv.image, conv.kernel, conv.bias, kernel_size,
                             dilation_rate)]
    /\ pc' = "conv_done"
    /\ UNCHANGED <<data, i, nodes, env, model, weights, score, error, head, flat>>

\* the two convolutions about to process one image with one set of weights
InitConv ==
    /\ notebook = "siamese"
    /\ x_train = <<>>
    /\ image_size = 0
    /\ input_shape = <<>>
    /\ y_train = 0..(MaxLabels - 1)
    /\ y_train_cat = SetMax(y_train) + 1
    /\ y_test = y_train
    /\ y_test_cat = SetMax(y_test) + 1
    /\ num_labels = Cardinality(y_train)
    /\ pc = "conv_forward"
    /\ i = 0
    /\ nodes = <<>>
    /\ env = EmptyEnv
    /\ model = NoModel
    /\ weights = 0
    /\ score = <<>>
    /\ error = ""
    /\ head = NoHead
    /\ flat = NoFlat
    /\ \E X \in Images, K \in Kernels, b \in KernelWeights :
          conv = [image |-> X, kernel |-> K, bias |-> b, standard |-> <<>>,
                  dilated |-> <<>>]

NextConv == ConvForward

SpecConv == InitConv /\ [][NextConv]_vars

\* ----------------------------------------------------------------- C13
SameSpatialShape(X, Y) ==
    /\ Len(X) = Len(Y)
    /\ \A r \in 1..Len(X) : Len(X[r]) = Len(Y[r])

ZeroImage == \A r \in 1..Len(conv.image), c \in 1..Len(conv.image) :
                 conv.image[r][c] = 0

CentreTapOnly ==
    \A a \in 1..kernel_size, b \in 1..kernel_size :
        (a # centre \/ b # centre) => conv.kernel[a][b] = 0

\* C13 as stated: with identical weights and input the dilated and the
\* standard convolution give outputs of identical spatial shape whose values
\* differ, the 3x3 kernel spanning more than one element.
C13_Original ==
    pc = "conv_done"
    => /\ SameSpatialShape(conv.standard, conv.dilated)
       /\ conv.standard # conv.dilated

\* C13 amended: with identical weights and input the two convolutions give
\* outputs of the spatial shape of the input, hence of identical shape; their
\* values coincide when the input is all zeros or the centre tap is the
\* kernel's only non-zero weight (they can differ otherwise).
C13_DilationSameShape ==
    pc = "conv_done"
    => /\ SameSpatialShape(conv.standard, conv.image)
       /\ SameSpatialShape(conv.dilated, conv.image)
       /\ SameSpatialShape(conv.standard, conv.dilated)
       /\ (ZeroImage \/ CentreTapOnly) => conv.standard = conv.dilated
       /\ CentreTapOnly =>
              \A r \in 1..Len(conv.image), c \in 1..Len(conv.image) :
                  conv.dilated[r][c]
                     = relu(conv.bias + conv.kernel[centre][centre] * conv.image[r][c])

\* an off-centre tap on a single bright pixel: same shape, different values
C13_Witness ==
    /\ pc = "conv_done"
    /\ ~CentreTapOnly /\ ~ZeroImage
    /\ Len(conv.image) = 3
    /\ SameSpatialShape(conv.standard, conv.dilated)
    /\ conv.standard # conv.dilated
    /\ conv.standard[2][2] = 1 /\ conv.dilated[2][2] = 0

====
